---- MODULE Spec2Model ----
(***************************************************************************)
(* Model of the Supabase tools of aden_tools                               *)
(* (tools/src/aden_tools/tools/supabase_tool/supabase_tool.py):            *)
(* the client resolver _get_supabase_client and the three tool functions   *)
(* supabase_db_query, supabase_auth_list_users and                         *)
(* supabase_storage_list_buckets that register_tools defines.              *)
(*                                                                         *)
(* A tool call is one step.  The Supabase SDK is the environment: every    *)
(* SDK call the tool makes is appended to the log `sdk`, and the backend   *)
(* of a request says which SDK call (if any) raises and what the backend   *)
(* answers.                                                                *)
(***************************************************************************)
EXTENDS Naturals, Sequences, FiniteSets, TLC

VARIABLES
    credentials,  \* the credential source captured by register_tools
    environ,      \* os.environ, restricted to the two variables read
    request,      \* the tool call being made: tool, arguments, backend behaviour
    done,         \* TRUE once the tool function of `request` has ended
    ret,          \* the dictionary the tool function returned
    escaped,      \* the exception that left the tool function, if any
    sdk,          \* the SDK calls made during the call, in order
    client,       \* the client handle create_client returned during the call
    env_reads,    \* the environment variables os.getenv was asked for
    previous      \* history: the client handle of the call before

vars == <<credentials, environ, request, done, ret, escaped, sdk, client, env_reads,
          previous>>

----------------------------------------------------------------------------
(* Bounds of the model *)

\* longest query_filter (number of column/value entries)
MaxFilter == 2

\* most records a backend response holds
MaxRecords == 2

----------------------------------------------------------------------------
(* Python values *)

\* Python's None, the "no value" marker
None == "None"

\* `not v` for v a str or None
Falsy(v) == v = None \/ v = ""

NoException == [type |-> "none", msg |-> ""]

Exception(type, msg) == [type |-> type, msg |-> msg]

\* no dictionary was returned (yet)
NoResult == [pending |-> TRUE]

NoClient == [url |-> None, key |-> None]

URL == "SUPABASE_URL"

KEY == "SUPABASE_SERVICE_ROLE_KEY"

CredentialNames == {URL, KEY}

\* what credentials.get(name) does: return a value (possibly None or "") or raise
Returns(v) == [exc |-> "none", val |-> v]

Raises(type) == [exc |-> type, val |-> None]

\* register_tools(mcp, credentials=None)
NoStore == [adapter |-> FALSE, get |-> [n \in CredentialNames |-> Raises("KeyError")]]

Store(u, k) == [adapter |-> TRUE, get |-> (URL :> u @@ KEY :> k)]

\* str(e) of an exception of the credential source
StoreErrorMessage(type, name) == type \o " while reading " \o name

MissingCredentialsMessage ==
    "SUPABASE_URL and SUPABASE_SERVICE_ROLE_KEY are required to use the Supabase tool"

----------------------------------------------------------------------------
(* SDK calls *)

\* query payload: None, a dict of `size` columns, or a list of `size` dicts
NonePayload == [kind |-> "None", size |-> 0]

SdkCall(op, a, b, p) == [op |-> op, a |-> a, b |-> b, payload |-> p]

\* the k-th SDK call of a tool call raises (failAt = 0: none does)
Raised(backend, k) == backend.failAt = k

BackendException(backend) == Exception("Exception", backend.msg)

----------------------------------------------------------------------------
(* _get_supabase_client *)

\* lines 16-22: the two lookups in the credential source, under one try
StoreLookup(creds) ==
    LET first == creds.get[URL]
        second == creds.get[KEY]
    IN  IF ~creds.adapter
        THEN [exc |-> NoException, url |-> None, key |-> None]
        ELSE IF first.exc = "KeyError"
        THEN [exc |-> NoException, url |-> None, key |-> None]
        ELSE IF first.exc # "none"
        THEN [exc |-> Exception(first.exc, StoreErrorMessage(first.exc, URL)),
              url |-> None, key |-> None]
        ELSE IF second.exc = "KeyError"
        THEN [exc |-> NoException, url |-> first.val, key |-> None]
        ELSE IF second.exc # "none"
        THEN [exc |-> Exception(second.exc, StoreErrorMessage(second.exc, KEY)),
              url |-> first.val, key |-> None]
        ELSE [exc |-> NoException, url |-> first.val, key |-> second.val]

\* lines 14-34; create_client is the first SDK call of a tool call
_get_supabase_client(creds, env, backend) ==
    LET looked == StoreLookup(creds)
        url == IF Falsy(looked.url) THEN env[URL] ELSE looked.url
        key == IF Falsy(looked.key) THEN env[KEY] ELSE looked.key
        reads == {n \in CredentialNames :
                    \/ n = URL /\ Falsy(looked.url)
                    \/ n = KEY /\ Falsy(looked.key)}
    IN  IF looked.exc # NoException
        THEN [exc |-> looked.exc, client |-> NoClient, sdk |-> << >>, env_reads |-> {}]
        ELSE IF Falsy(url) \/ Falsy(key)
        THEN [exc |-> Exception("ValueError", MissingCredentialsMessage),
              client |-> NoClient, sdk |-> << >>, env_reads |-> reads]
        ELSE IF Raised(backend, 1)
        THEN [exc |-> BackendException(backend), client |-> NoClient,
              sdk |-> <<SdkCall("create_client", url, key, NonePayload)>>,
              env_reads |-> reads]
        ELSE [exc |-> NoException, client |-> [url |-> url, key |-> key],
              sdk |-> <<SdkCall("create_client", url, key, NonePayload)>>,
              env_reads |-> reads]

----------------------------------------------------------------------------
(* supabase_db_query: the branches of the dispatch on `action` *)

NoneFilter == [kind |-> "None", items |-> << >>]

\* a dict of n column/value entries, in insertion order
DictFilter(n) ==
    [kind |-> "dict",
     items |-> [i \in 1..n |-> [k |-> "col" \o ToString(i), v |-> "val" \o ToString(i)]]]

\* `if query_filter:` and `if not payload:`
FilterTruthy(query_filter) == query_filter.kind = "dict" /\ Len(query_filter.items) > 0

PayloadTruthy(payload) == payload.kind # "None" /\ payload.size > 0

\* for k, v in query_filter.items(): req = req.eq(k, v)
EqCalls(query_filter) ==
    [i \in 1..Len(query_filter.items) |->
        SdkCall("eq", query_filter.items[i].k, query_filter.items[i].v, NonePayload)]

ExecuteCall == SdkCall("execute", None, None, NonePayload)

\* a branch that returns an error dictionary before building a request
Rejected(message) == [error |-> message, steps |-> << >>, count |-> FALSE]

\* a branch that builds a request with the SDK calls `steps` and executes it
Requested(steps, count) == [error |-> None, steps |-> steps \o <<ExecuteCall>>, count |-> count]

\* select that applies no equality condition
SelectUnfiltered(query_filter) ==
    Requested(<<SdkCall("select", "*", None, NonePayload)>>, TRUE)

\* lines 66-72
SelectBranch(query_filter) ==
    Requested(<<SdkCall("select", "*", None, NonePayload)>>
                \o (IF FilterTruthy(query_filter) THEN EqCalls(query_filter) ELSE << >>),
              TRUE)

\* insert without the payload check
InsertUnchecked(payload) ==
    Requested(<<SdkCall("insert", None, None, payload)>>, FALSE)

\* lines 74-78
InsertBranch(payload) ==
    IF ~PayloadTruthy(payload)
    THEN Rejected("payload is required for insert action")
    ELSE Requested(<<SdkCall("insert", None, None, payload)>>, FALSE)

\* update that checks the filter before the payload
UpdateFilterFirst(query_filter, payload) ==
    IF ~FilterTruthy(query_filter)
    THEN Rejected("query_filter is required for update action")
    ELSE IF ~PayloadTruthy(payload)
    THEN Rejected("payload is required for update action")
    ELSE Requested(<<SdkCall("update", None, None, payload)>> \o EqCalls(query_filter), FALSE)

\* lines 80-89
UpdateBranch(query_filter, payload) ==
    IF ~PayloadTruthy(payload)
    THEN Rejected("payload is required for update action")
    ELSE IF ~FilterTruthy(query_filter)
    THEN Rejected("query_filter is required for update action")
    ELSE Requested(<<SdkCall("update", None, None, payload)>> \o EqCalls(query_filter), FALSE)

\* lines 91-98
DeleteBranch(query_filter) ==
    IF ~FilterTruthy(query_filter)
    THEN Rejected("query_filter is required for delete action")
    ELSE Requested(<<SdkCall("delete", None, None, NonePayload)>> \o EqCalls(query_filter), FALSE)

\* lines 100-103
UnknownBranch(action) ==
    Rejected("Unknown action: " \o action \o ". Use select, insert, update, or delete.")

\* lines 66-103
Dispatch(action, query_filter, payload) ==
    CASE action = "select" -> SelectBranch(query_filter)
      [] action = "insert" -> InsertBranch(payload)
      [] action = "update" -> UpdateBranch(query_filter, payload)
      [] action = "delete" -> DeleteBranch(query_filter)
      [] OTHER -> UnknownBranch(action)

\* the SDK calls `steps` made after `made` earlier ones: all of them, or up to
\* the one the backend makes raise
Run(made, steps, backend) ==
    IF backend.failAt > made /\ backend.failAt <= made + Len(steps)
    THEN [exc |-> BackendException(backend), sdk |-> SubSeq(steps, 1, backend.failAt - made)]
    ELSE [exc |-> NoException, sdk |-> steps]

\* lines 72, 78, 89, 98: the success dictionaries
QuerySuccess(data, count) ==
    IF count
    THEN [success |-> TRUE, data |-> data, count |-> Len(data)]
    ELSE [success |-> TRUE, data |-> data]

\* lines 63-103: the body of the try block
TryDbQuery(resolved, req) ==
    IF resolved.exc # NoException
    THEN [exc |-> resolved.exc, ret |-> NoResult, sdk |-> resolved.sdk]
    ELSE LET branch == Dispatch(req.action, req.query_filter, req.payload)
             run == Run(Len(resolved.sdk),
                        <<SdkCall("table", req.table, None, NonePayload)>> \o branch.steps,
                        req.backend)
         IN  IF run.exc # NoException
             THEN [exc |-> run.exc, ret |-> NoResult, sdk |-> resolved.sdk \o run.sdk]
             ELSE IF branch.error # None
             THEN [exc |-> NoException, ret |-> [error |-> branch.error],
                   sdk |-> resolved.sdk \o run.sdk]
             ELSE [exc |-> NoException, ret |-> QuerySuccess(req.backend.data.records, branch.count),
                   sdk |-> resolved.sdk \o run.sdk]

\* an except clause that lets the exception through
DbQueryReraise(e) == [ret |-> NoResult, escaped |-> e]

\* lines 105-107
DbQueryExcept(e) ==
    [ret |-> [error |-> "Failed to execute DB query: " \o e.msg], escaped |-> NoException]

----------------------------------------------------------------------------
(* the two listing tools *)

UserFields == {"id", "email", "created_at", "last_sign_in_at"}

BucketFields == {"id", "name", "public", "created_at"}

\* An SDK object is the set of the attributes it carries; the value of an
\* attribute is a string made from its name.
AttrValue(name) == "a-" \o name

\* hasattr(o, name)
HasAttr(o, name) == name \in o

\* getattr(o, name, None)
GetAttr(o, name) == IF HasAttr(o, name) THEN AttrValue(name) ELSE None

\* str(AttributeError) of `u.id` on an object without that attribute
AttributeErrorMessage(name) == "'User' object has no attribute '" \o name \o "'"

\* lines 122-132
ProjectUsers(result) ==
    IF ~result.has_users
    THEN [exc |-> NoException, list |-> << >>]
    ELSE IF \E i \in 1..Len(result.records) : ~HasAttr(result.records[i], "id")
    THEN [exc |-> Exception("AttributeError", AttributeErrorMessage("id")), list |-> << >>]
    ELSE [exc |-> NoException,
          list |-> [i \in 1..Len(result.records) |->
                      [id |-> AttrValue("id"),
                       email |-> GetAttr(result.records[i], "email"),
                       created_at |-> GetAttr(result.records[i], "created_at"),
                       last_sign_in_at |-> GetAttr(result.records[i], "last_sign_in_at")]]]

\* lines 149-158
ProjectBuckets(buckets) ==
    [i \in 1..Len(buckets) |->
        [id |-> GetAttr(buckets[i], "id"),
         name |-> GetAttr(buckets[i], "name"),
         public |-> GetAttr(buckets[i], "public"),
         created_at |-> GetAttr(buckets[i], "created_at")]]

\* lines 133, 159
ListSuccess(list) == [success |-> TRUE, data |-> list, count |-> Len(list)]

\* lines 119-133: the body of the try block
TryListUsers(resolved, req) ==
    IF resolved.exc # NoException
    THEN [exc |-> resolved.exc, ret |-> NoResult, sdk |-> resolved.sdk]
    ELSE LET run == Run(Len(resolved.sdk),
                        <<SdkCall("auth.admin.list_users", None, None, NonePayload)>>,
                        req.backend)
             projected == ProjectUsers(req.backend.data)
         IN  IF run.exc # NoException
             THEN [exc |-> run.exc, ret |-> NoResult, sdk |-> resolved.sdk \o run.sdk]
             ELSE IF projected.exc # NoException
             THEN [exc |-> projected.exc, ret |-> NoResult, sdk |-> resolved.sdk \o run.sdk]
             ELSE [exc |-> NoException, ret |-> ListSuccess(projected.list),
                   sdk |-> resolved.sdk \o run.sdk]

\* the message of the exception is dropped
ListUsersExceptNoMessage(e) ==
    [ret |-> [error |-> "Failed to list auth users"], escaped |-> NoException]

\* lines 134-136
ListUsersExcept(e) ==
    [ret |-> [error |-> "Failed to list auth users: " \o e.msg], escaped |-> NoException]

\* lines 147-159: the body of the try block
TryListBuckets(resolved, req) ==
    IF resolved.exc # NoException
    THEN [exc |-> resolved.exc, ret |-> NoResult, sdk |-> resolved.sdk]
    ELSE LET run == Run(Len(resolved.sdk),
                        <<SdkCall("storage.list_buckets", None, None, NonePayload)>>,
                        req.backend)
         IN  IF run.exc # NoException
             THEN [exc |-> run.exc, ret |-> NoResult, sdk |-> resolved.sdk \o run.sdk]
             ELSE [exc |-> NoException, ret |-> ListSuccess(ProjectBuckets(req.backend.data.records)),
                   sdk |-> resolved.sdk \o run.sdk]

\* an error dictionary that also carries a success flag
ListBucketsExceptWithFlag(e) ==
    [ret |-> [success |-> FALSE, error |-> "Failed to list storage buckets: " \o e.msg],
     escaped |-> NoException]

\* lines 160-162
ListBucketsExcept(e) ==
    [ret |-> [error |-> "Failed to list storage buckets: " \o e.msg], escaped |-> NoException]

----------------------------------------------------------------------------
(* Requests: the arguments of a tool call and the behaviour of the backend *)

Actions == {"select", "insert", "update", "delete", "upsert"}

Filters == {NoneFilter} \cup {DictFilter(n) : n \in 0..MaxFilter}

Payloads ==
    {NonePayload, [kind |-> "dict", size |-> 0], [kind |-> "list", size |-> 0],
     [kind |-> "dict", size |-> 2], [kind |-> "list", size |-> 1]}

ExceptionMessages == {"connection timed out", "permission denied"}

\* no SDK call raises, or one of the first n does
Faults(n) ==
    {[failAt |-> 0, msg |-> ""]}
        \cup {[failAt |-> k, msg |-> m] : k \in 1..n, m \in ExceptionMessages}

\* what the backend answers: `records`, which the response of list_users
\* carries in an attribute `users` (has_users) or not
Response(has_users, records) == [has_users |-> has_users, records |-> records]

\* result.data of an executed request: n rows
Rows(n) == Response(TRUE, [i \in 1..n |-> {"id", "name"}])

SeqsUpTo(S, n) == UNION {[1..m -> S] : m \in 0..n}

\* SDK objects with every attribute, all but one, or none
Objects(fields) == {fields, {}} \cup {fields \ {f} : f \in fields}

Backend(fault, data) == [failAt |-> fault.failAt, msg |-> fault.msg, data |-> data]

QueryRequest(table, action, query_filter, payload, backend) ==
    [tool |-> "supabase_db_query", table |-> table, action |-> action,
     query_filter |-> query_filter, payload |-> payload, backend |-> backend]

ListRequest(tool, backend) ==
    [tool |-> tool, table |-> None, action |-> None,
     query_filter |-> NoneFilter, payload |-> NonePayload, backend |-> backend]

\* the longest supabase_db_query makes create_client, table, update, the eq
\* calls and execute
QueryRequests ==
    {QueryRequest("users", a, f, p, Backend(fault, Rows(n))) :
        a \in Actions, f \in Filters, p \in Payloads,
        fault \in Faults(MaxFilter + 4), n \in 0..MaxRecords}

ListUsersRequests ==
    {ListRequest("supabase_auth_list_users",
                 Backend(fault, Response(h, us))) :
        fault \in Faults(2), h \in BOOLEAN, us \in SeqsUpTo(Objects(UserFields), MaxRecords)}

ListBucketsRequests ==
    {ListRequest("supabase_storage_list_buckets", Backend(fault, Response(TRUE, bs))) :
        fault \in Faults(2), bs \in SeqsUpTo(Objects(BucketFields), MaxRecords)}

Requests == QueryRequests \cup ListUsersRequests \cup ListBucketsRequests

IdleRequest == ListRequest("none", Backend([failAt |-> 0, msg |-> ""], Response(TRUE, << >>)))

\* values held by the credential source and by the environment
StoreValue(name) == IF name = URL THEN "https://store.supabase.co" ELSE "store-key"

EnvValue(name) == IF name = URL THEN "https://env.supabase.co" ELSE "env-key"

Unset == [n \in CredentialNames |-> None]

----------------------------------------------------------------------------
(* The tool functions *)

\* the handle an earlier call built is used again
GetCachedClient(req) ==
    IF client # NoClient
    THEN [exc |-> NoException, client |-> client, sdk |-> << >>, env_reads |-> {}]
    ELSE _get_supabase_client(credentials, environ, req.backend)

\* lines 63, 119, 147: client = _get_supabase_client(credentials), with the
\* credential source and the environment as they are when the call is made
GetClient(req) == _get_supabase_client(credentials, environ, req.backend)

\* lines 44-107
supabase_db_query ==
    /\ ~done
    /\ request.tool = "supabase_db_query"
    /\ LET resolved == GetClient(request)
           tried == TryDbQuery(resolved, request)
           out == IF tried.exc # NoException
                  THEN DbQueryExcept(tried.exc)
                  ELSE [ret |-> tried.ret, escaped |-> NoException]
       IN  /\ ret' = out.ret
           /\ escaped' = out.escaped
           /\ sdk' = tried.sdk
           /\ client' = resolved.client
           /\ env_reads' = resolved.env_reads
    /\ previous' = client
    /\ done' = TRUE
    /\ UNCHANGED <<credentials, environ, request>>

\* lines 110-136
supabase_auth_list_users ==
    /\ ~done
    /\ request.tool = "supabase_auth_list_users"
    /\ LET resolved == GetClient(request)
           tried == TryListUsers(resolved, request)
           out == IF tried.exc # NoException
                  THEN ListUsersExcept(tried.exc)
                  ELSE [ret |-> tried.ret, escaped |-> NoException]
       IN  /\ ret' = out.ret
           /\ escaped' = out.escaped
           /\ sdk' = tried.sdk
           /\ client' = resolved.client
           /\ env_reads' = resolved.env_reads
    /\ previous' = client
    /\ done' = TRUE
    /\ UNCHANGED <<credentials, environ, request>>

\* lines 139-162
supabase_storage_list_buckets ==
    /\ ~done
    /\ request.tool = "supabase_storage_list_buckets"
    /\ LET resolved == GetClient(request)
           tried == TryListBuckets(resolved, request)
           out == IF tried.exc # NoException
                  THEN ListBucketsExcept(tried.exc)
                  ELSE [ret |-> tried.ret, escaped |-> NoException]
       IN  /\ ret' = out.ret
           /\ escaped' = out.escaped
           /\ sdk' = tried.sdk
           /\ client' = resolved.client
           /\ env_reads' = resolved.env_reads
    /\ previous' = client
    /\ done' = TRUE
    /\ UNCHANGED <<credentials, environ, request>>

----------------------------------------------------------------------------
(* Single calls: every request, under a credential source that is absent,   *)
(* holds both values or holds none (None for one, "" for the other), and an *)
(* environment in which each variable is unset, empty or set                *)

Stores ==
    {NoStore,
     Store(Returns(StoreValue(URL)), Returns(StoreValue(KEY))),
     Store(Returns(None), Returns(""))}

Environs ==
    {[n \in CredentialNames |-> IF e[n] = "set" THEN EnvValue(n) ELSE e[n]] :
        e \in [CredentialNames -> {None, "", "set"}]}

Init ==
    /\ credentials \in Stores
    /\ environ \in Environs
    /\ request \in Requests
    /\ done = FALSE
    /\ ret = NoResult
    /\ escaped = NoException
    /\ sdk = << >>
    /\ client = NoClient
    /\ env_reads = {}
    /\ previous = NoClient

Next ==
    \/ supabase_db_query
    \/ supabase_auth_list_users
    \/ supabase_storage_list_buckets

Spec == Init /\ [][Next]_vars

----------------------------------------------------------------------------
(* Sessions: calls one after another, while the credential source and the   *)
(* environment change between them                                          *)

\* what a lookup in the credential source can do
Outcomes(name) ==
    {Raises("KeyError"), Raises("RuntimeError"),
     Returns(None), Returns(""), Returns(StoreValue(name))}

NoFault == [failAt |-> 0, msg |-> ""]

\* a select whose create_client succeeds or raises, and the two listings
SessionRequests ==
    {QueryRequest("users", "select", NoneFilter, NonePayload, Backend(NoFault, Rows(1))),
     QueryRequest("users", "select", NoneFilter, NonePayload,
                  Backend([failAt |-> 1, msg |-> "connection timed out"], Rows(1))),
     ListRequest("supabase_auth_list_users", Backend(NoFault, Response(TRUE, <<UserFields>>))),
     ListRequest("supabase_storage_list_buckets",
                 Backend(NoFault, Response(TRUE, <<BucketFields>>)))}

\* lines 37-40: the tools are registered with a credential source, or with none
register_tools ==
    /\ \E c \in {NoStore, Store(Raises("KeyError"), Raises("KeyError"))} : credentials' = c
    /\ UNCHANGED <<environ, request, done, ret, escaped, sdk, client, env_reads, previous>>

\* the credential source changes what a lookup of `name` does (lines 19-20)
SetCredential ==
    /\ credentials.adapter
    /\ \E name \in CredentialNames :
          \E o \in Outcomes(name) : credentials' = [credentials EXCEPT !.get[name] = o]
    /\ UNCHANGED <<environ, request, done, ret, escaped, sdk, client, env_reads, previous>>

\* the environment sets, empties or unsets a variable (lines 25, 27)
Setenv ==
    /\ \E name \in CredentialNames :
          \E v \in {None, "", EnvValue(name)} : environ' = [environ EXCEPT ![name] = v]
    /\ UNCHANGED <<credentials, request, done, ret, escaped, sdk, client, env_reads, previous>>

\* the host calls a tool function; what the previous call left stays until
\* the call ends
Invoke ==
    /\ done
    /\ request' \in SessionRequests
    /\ done' = FALSE
    /\ UNCHANGED <<credentials, environ, ret, escaped, sdk, client, env_reads, previous>>

SessionInit ==
    /\ credentials = NoStore
    /\ environ = Unset
    /\ request = IdleRequest
    /\ done = TRUE
    /\ ret = NoResult
    /\ escaped = NoException
    /\ sdk = << >>
    /\ client = NoClient
    /\ env_reads = {}
    /\ previous = NoClient

SessionNext ==
    \/ register_tools
    \/ SetCredential
    \/ Setenv
    \/ Invoke
    \/ supabase_db_query
    \/ supabase_auth_list_users
    \/ supabase_storage_list_buckets

SessionSpec == SessionInit /\ [][SessionNext]_vars

----------------------------------------------------------------------------
(* Vocabulary of the properties *)

QueryTool == "supabase_db_query"

Prefix(tool) ==
    CASE tool = QueryTool -> "Failed to execute DB query: "
      [] tool = "supabase_auth_list_users" -> "Failed to list auth users: "
      [] tool = "supabase_storage_list_buckets" -> "Failed to list storage buckets: "

SuccessShape(r) ==
    /\ {"success", "data"} \subseteq DOMAIN r
    /\ "error" \notin DOMAIN r
    /\ r.success = TRUE

ErrorShape(r) ==
    /\ "error" \in DOMAIN r
    /\ "success" \notin DOMAIN r
    /\ "data" \notin DOMAIN r

\* the value a field ends with: the credential source's when its lookup
\* returns a non-empty value, else the environment's
FinalValue(creds, env, name) ==
    IF creds.adapter /\ creds.get[name].exc = "none" /\ ~Falsy(creds.get[name].val)
    THEN creds.get[name].val
    ELSE env[name]

ResolutionFails == \E name \in CredentialNames : Falsy(FinalValue(credentials, environ, name))

\* the SDK calls of the log with operation op
Count(op) == Cardinality({i \in 1..Len(sdk) : sdk[i].op = op})

\* the SDK call the backend of the request makes raise was made
SdkRaised == request.backend.failAt >= 1 /\ Len(sdk) >= request.backend.failAt

QueryDone == done /\ request.tool = QueryTool

----------------------------------------------------------------------------
(* C1 *)

\* C1, as claimed: when credential resolution fails, the configuration error
\* leaves the tool function as an exception and no dictionary is returned.
C1_ConfigErrorPropagates ==
    done /\ ResolutionFails => escaped.type = "ValueError" /\ ret = NoResult

\* C1, amended: when credential resolution fails, every tool returns the error
\* dictionary made of its prefix and the configuration message, without any
\* SDK call; no exception of any category leaves a tool function.
C1_ConfigErrorReturned ==
    done =>
        /\ escaped = NoException
        /\ ret # NoResult
        /\ ResolutionFails =>
              /\ ret = [error |-> Prefix(request.tool) \o MissingCredentialsMessage]
              /\ sdk = << >>

C1_Witness ==
    /\ done
    /\ ResolutionFails
    /\ request.tool = QueryTool
    /\ ret = [error |-> "Failed to execute DB query: SUPABASE_URL and SUPABASE_SERVICE_ROLE_KEY are required to use the Supabase tool"]

----------------------------------------------------------------------------
(* C2 *)

\* C2: every dictionary a tool returns has the success shape (success = true
\* and data, no error) or the error shape (error, no success, no data), and
\* never both nor neither.
C2_ExactlyOneShape ==
    done /\ escaped = NoException =>
        /\ SuccessShape(ret) \/ ErrorShape(ret)
        /\ ~(SuccessShape(ret) /\ ErrorShape(ret))
        /\ ~({"error", "success"} \subseteq DOMAIN ret)

C2_Witness ==
    /\ done
    /\ request.tool = "supabase_storage_list_buckets"
    /\ SdkRaised
    /\ ErrorShape(ret)

----------------------------------------------------------------------------
(* C3 *)

\* the validation failures of the query tool and their messages
FailsValidation(req) ==
    \/ req.action = "insert" /\ ~PayloadTruthy(req.payload)
    \/ req.action = "update" /\ (~PayloadTruthy(req.payload) \/ ~FilterTruthy(req.query_filter))
    \/ req.action = "delete" /\ ~FilterTruthy(req.query_filter)
    \/ req.action \notin {"select", "insert", "update", "delete"}

ValidationErrors(req) ==
    CASE req.action = "insert" -> {"payload is required for insert action"}
      [] req.action = "update" ->
            {m \in {"payload is required for update action",
                    "query_filter is required for update action"} :
                \/ m = "payload is required for update action" /\ ~PayloadTruthy(req.payload)
                \/ m = "query_filter is required for update action"
                      /\ ~FilterTruthy(req.query_filter)}
      [] req.action = "delete" -> {"query_filter is required for delete action"}
      [] OTHER -> {"Unknown action: " \o req.action \o ". Use select, insert, update, or delete."}

\* C3, as claimed: a query call that fails validation returns the matching
\* validation error dictionary and executes no backend request.
C3_ValidationErrorAlways ==
    QueryDone /\ FailsValidation(request) =>
        /\ ErrorShape(ret)
        /\ ret.error \in ValidationErrors(request)
        /\ Count("execute") = 0

\* the call got as far as the dispatch on `action`: the client was resolved
\* and neither create_client nor client.table(table) raised
ReachesDispatch == ~ResolutionFails /\ request.backend.failAt \notin {1, 2}

\* C3, amended: a query call that fails validation executes no backend request
\* and builds none; it returns the matching validation error dictionary when the
\* client was resolved and client.table(table) did not raise, and otherwise the
\* 'Failed to execute DB query: ' dictionary of the exception raised before.
C3_ValidationErrorWhenReached ==
    QueryDone /\ FailsValidation(request) =>
        /\ Count("execute") = 0
        /\ \A i \in 1..Len(sdk) : sdk[i].op \in {"create_client", "table"}
        /\ ErrorShape(ret)
        /\ IF ReachesDispatch
           THEN ret.error \in ValidationErrors(request)
           ELSE ret.error = Prefix(QueryTool) \o
                    (IF ResolutionFails THEN MissingCredentialsMessage
                     ELSE request.backend.msg)

C3_Witness ==
    /\ QueryDone
    /\ request.action = "delete"
    /\ request.query_filter = DictFilter(0)
    /\ ret = [error |-> "query_filter is required for delete action"]
    /\ Len(sdk) = 2

----------------------------------------------------------------------------
(* C6 *)

ListingFields(tool) == IF tool = "supabase_auth_list_users" THEN UserFields ELSE BucketFields

\* C6, as claimed: when the backend answers a listing tool, records that omit
\* projected fields cause no error: the tool returns the success shape, every
\* record is in 'data' with each omitted field set to None, and 'count' is the
\* number of records the backend returned.
C6_OmittedFieldsTolerated ==
    /\ done
    /\ request.tool \in {"supabase_auth_list_users", "supabase_storage_list_buckets"}
    /\ ~ResolutionFails
    /\ request.backend.failAt = 0
    /\ request.backend.data.has_users
    => /\ SuccessShape(ret)
       /\ ret.count = Len(request.backend.data.records)
       /\ Len(ret.data) = Len(request.backend.data.records)
       /\ \A i \in 1..Len(ret.data) :
             \A f \in ListingFields(request.tool) :
                ret.data[i][f] = IF f \in request.backend.data.records[i]
                                 THEN AttrValue(f) ELSE None

----------------------------------------------------------------------------
(* C7 *)

\* C7: whenever an SDK call made during a tool call raises, the tool returns
\* the error dictionary whose message is the tool's prefix followed by the
\* exception's message; the exception does not leave the tool function.
C7_SdkExceptionReturned ==
    done /\ SdkRaised =>
        /\ escaped = NoException
        /\ ret = [error |-> Prefix(request.tool) \o request.backend.msg]

C7_Witness ==
    /\ QueryDone
    /\ SdkRaised
    /\ sdk[Len(sdk)].op = "eq"
    /\ Len(sdk) = 5
    /\ ret = [error |-> "Failed to execute DB query: permission denied"]

----------------------------------------------------------------------------
(* C8 *)

\* the entries of a filter: none when it is None or empty
Entries(query_filter) == IF query_filter.kind = "dict" THEN query_filter.items ELSE << >>

\* C8: a successful select makes one select("*") on the named table, one eq
\* per filter entry and nothing else, executes once, and returns the records
\* of the backend with their number as 'count'.
C8_SelectRequest ==
    QueryDone /\ request.action = "select" /\ SuccessShape(ret) =>
        LET entries == Entries(request.query_filter)
        IN  /\ Len(sdk) = Len(entries) + 4
            /\ sdk[1].op = "create_client"
            /\ sdk[2] = SdkCall("table", request.table, None, NonePayload)
            /\ sdk[3] = SdkCall("select", "*", None, NonePayload)
            /\ \A i \in 1..Len(entries) :
                  sdk[3 + i] = SdkCall("eq", entries[i].k, entries[i].v, NonePayload)
            /\ sdk[Len(sdk)].op = "execute"
            /\ Count("execute") = 1
            /\ Count("eq") = Len(entries)
            /\ ret.data = request.backend.data.records
            /\ ret.count = Len(request.backend.data.records)
            /\ DOMAIN ret = {"success", "data", "count"}

C8_Witness ==
    /\ QueryDone
    /\ request.action = "select"
    /\ Len(Entries(request.query_filter)) = 2
    /\ SuccessShape(ret)
    /\ ret.count = 2
    /\ Count("eq") = 2

----------------------------------------------------------------------------
(* C9 *)

\* C9, as claimed: for an update, the payload error is returned when payload
\* and filter are both absent or empty, the filter error only when the payload
\* is non-empty and the filter is not, and the update request is built and
\* executed only when both are non-empty.
C9_PayloadBeforeFilterAlways ==
    QueryDone /\ request.action = "update" =>
        /\ ~PayloadTruthy(request.payload) /\ ~FilterTruthy(request.query_filter)
              => ret = [error |-> "payload is required for update action"]
        /\ ret = [error |-> "query_filter is required for update action"]
              => PayloadTruthy(request.payload) /\ ~FilterTruthy(request.query_filter)
        /\ Count("update") + Count("execute") > 0
              => PayloadTruthy(request.payload) /\ FilterTruthy(request.query_filter)

\* C9, amended: the same, for an update call that gets as far as the checks
\* (the client was resolved and client.table(table) did not raise): then an
\* empty payload gives the payload error whatever the filter, the filter error
\* is returned exactly when the payload is non-empty and the filter is not; in
\* every update call the request is built and executed only when both are
\* non-empty, and a call that does not get to the checks returns neither error.
C9_PayloadBeforeFilterWhenReached ==
    QueryDone /\ request.action = "update" =>
        /\ ReachesDispatch /\ ~PayloadTruthy(request.payload)
              => ret = [error |-> "payload is required for update action"]
        /\ ReachesDispatch /\ PayloadTruthy(request.payload)
                           /\ ~FilterTruthy(request.query_filter)
              => ret = [error |-> "query_filter is required for update action"]
        /\ ret = [error |-> "query_filter is required for update action"]
              => PayloadTruthy(request.payload) /\ ~FilterTruthy(request.query_filter)
        /\ Count("update") + Count("execute") > 0
              => PayloadTruthy(request.payload) /\ FilterTruthy(request.query_filter)
        /\ ~ReachesDispatch
              => ret = [error |-> Prefix(QueryTool) \o
                           (IF ResolutionFails THEN MissingCredentialsMessage
                            ELSE request.backend.msg)]

C9_Witness ==
    /\ QueryDone
    /\ request.action = "update"
    /\ request.payload = NonePayload
    /\ request.query_filter = NoneFilter
    /\ ret = [error |-> "payload is required for update action"]
    /\ Count("update") = 0

----------------------------------------------------------------------------
(* C4, C5, C10: the resolver, over sessions *)

\* a tool function ends in this step
CallEnds == ~done /\ done'

\* the credential source holds a non-empty value for the field
Supplies(creds, name) ==
    creds.adapter /\ creds.get[name].exc = "none" /\ ~Falsy(creds.get[name].val)

\* C4, as claimed: each field is resolved on its own (the credential source's
\* non-empty value, else the environment's, whatever the other lookup did),
\* and resolution fails exactly when one of the two final values is empty or
\* absent.
C4_IndependentLookups ==
    [][CallEnds =>
          LET url == FinalValue(credentials, environ, URL)
              key == FinalValue(credentials, environ, KEY)
          IN  IF Falsy(url) \/ Falsy(key)
              THEN client' = NoClient
              ELSE request.backend.failAt # 1 => client' = [url |-> url, key |-> key]]_vars

\* C5, as claimed: a non-empty URL of the credential source is the one the
\* client handle is built with, and the environment is read only for a field
\* the credential source left empty or absent.
C5_StoreBeforeEnvironment ==
    [][CallEnds =>
          /\ Supplies(credentials, URL) /\ client' # NoClient
                => client'.url = credentials.get[URL].val
          /\ \A name \in env_reads' : ~Supplies(credentials, name)]_vars

\* what a tool call returns, given the outcome of the resolver
Outcome(resolved, req) ==
    LET tried == CASE req.tool = QueryTool -> TryDbQuery(resolved, req)
                   [] req.tool = "supabase_auth_list_users" -> TryListUsers(resolved, req)
                   [] OTHER -> TryListBuckets(resolved, req)
    IN  IF tried.exc = NoException
        THEN tried.ret
        ELSE [error |-> Prefix(req.tool) \o tried.exc.msg]

\* C10: every call resolves the credential pair from the credential source and
\* the environment as they are when it is made, builds its own client handle
\* with create_client, and returns what its arguments, those sources and the
\* backend determine, whatever earlier calls did.
C10_ResolvedAnew ==
    [][CallEnds =>
          LET fresh == _get_supabase_client(credentials, environ, request.backend)
          IN  /\ client' = fresh.client
              /\ env_reads' = fresh.env_reads
              /\ ret' = Outcome(fresh, request)
              /\ escaped' = NoException
              /\ client' # NoClient =>
                    /\ sdk'[1] = SdkCall("create_client", client'.url, client'.key,
                                         NonePayload)
                    /\ client'.url \in {credentials.get[URL].val, environ[URL]}
                    /\ client'.key \in {credentials.get[KEY].val, environ[KEY]}
              /\ (\E name \in CredentialNames :
                     Falsy(FinalValue(credentials, environ, name)))
                   => /\ client' = NoClient
                      /\ sdk' = << >>]_vars

\* the call before built a client, a credential was removed, and this call
\* fails to resolve
C10_Witness ==
    /\ done
    /\ previous # NoClient
    /\ client = NoClient
    /\ request.tool = "supabase_auth_list_users"
    /\ ret = [error |-> Prefix(request.tool) \o MissingCredentialsMessage]

====
